---- MODULE Spec2Model ----
\* LRU + TTL cache with a write-ahead log (src/src/lru_cache.cpp,
\* src/include/lru_cache.h, src/include/node.h).
\*
\* The LRUCache object is the record `lru`: its members capacity, cache
\* (the unordered_map from key to node address), ttl_seconds, wal_stream_,
\* and the heap of Node objects it owns (key, value, prev, next, timestamp).
\* Node addresses are small integers; HEAD and TAIL are the two sentinel
\* nodes made by the constructor.  Strings are sequences of characters.
\* The steady clock is `now`, counted in ticks of 1/TicksPerSec second.
EXTENDS Integers, Sequences, FiniteSets, TLC

\* ---------------------------------------------------------------- bounds
MaxCap == 2          \* largest configured capacity explored
MaxTTL == 1          \* largest configured ttl_seconds explored
TicksPerSec == 2     \* clock resolution of the model: ticks per second
MaxTime == 5         \* the clock stops advancing at this tick
MaxLog == 2          \* lines the WAL device accepts before it is full
MaxRun == 4          \* lines the WAL device accepts in a run that is replayed
MaxOps == 2          \* client mutations a primary accepts in a run
NumThreads == 2      \* client threads calling the cache concurrently
MaxFile == 3         \* lines of a log file handed to recovery
MaxSync == 3         \* client mutations in a run that compares the two nodes

\* ---------------------------------------------------------------- values
Keys == {<<"a">>, <<"b">>, <<"c">>}
Values == {<<"1">>, <<"2">>}
EmptyString == <<>>

NULL == 0
HEAD == 1
TAIL == 2
KeyList == <<<<"a">>, <<"b">>, <<"c">>>>
Pool == 3 .. (2 + Len(KeyList))
Nodes == {HEAD, TAIL} \cup Pool
STREAM == 1
Threads == 1 .. NumThreads
NoThread == 0

\* ------------------------------------------------------------- variables
VARIABLES lru,        \* the LRUCache object and its nodes
          wal_good,   \* std::ofstream state of the WAL stream: good()
          wal_file,   \* the lines of the WAL file
          disk_free,  \* lines the WAL device still accepts
          now,        \* steady_clock reading, in ticks
          last,       \* the last operation, its arguments and its result
          touchSeq,   \* resident keys with the time of their last successful
                      \* touch, newest first (kept from the results only)
          mtx,        \* LRUCache::mtx: the thread that holds it, or NoThread
          pc,         \* per thread: where it is in put_sync / remove_sync / get_sync
          req,        \* per thread: the call it is running and its locals
          applied,    \* the mutations applied to the store, in order, with the thread
          snap,       \* the cache and the log as the holder of mtx found them
          replication_queue_,  \* CacheServiceImpl: the tasks waiting for the worker
          queue_mutex_,        \* the thread that holds queue_mutex_, or NoThread
          stop_replication_,   \* the stop flag of the replication worker
          wpc,        \* where the replication worker is in ReplicationWorkerLoop
          task,       \* the task the worker dequeued
          dpc,        \* where the destructor of the service is
          replica,    \* the cache of the replica node
          pushed,     \* every task pushed onto the queue, in order
          delivered   \* every task a replica applied, in order

srv == <<replication_queue_, queue_mutex_, stop_replication_, wpc, task, dpc,
         replica, pushed, delivered>>
conc == <<mtx, pc, req, applied, snap, srv>>
vars == <<lru, wal_good, wal_file, disk_free, now, last, touchSeq, mtx, pc, req, applied,
          snap, replication_queue_, queue_mutex_, stop_replication_, wpc, task, dpc,
          replica, pushed, delivered>>

\* ------------------------------------------------------------ Node, heap
\* Node::Node(k, v): prev and next are nullptr, timestamp is now()
NewNode(c, node, k, v, t) ==
    [c EXCEPT !.live = @ \cup {node},
              !.key[node] = k, !.value[node] = v,
              !.prev[node] = NULL, !.next[node] = NULL,
              !.timestamp[node] = t]

\* operator new: an address that is not in use.  Which free address new
\* returns is not observable; the model's allocator keeps one address per key.
Alloc(c, k) == 2 + CHOOSE i \in 1 .. Len(KeyList) : KeyList[i] = k

\* delete node: the memory goes back to the heap
DeleteNode(c, node) ==
    [c EXCEPT !.live = @ \ {node},
              !.key[node] = EmptyString, !.value[node] = EmptyString,
              !.prev[node] = NULL, !.next[node] = NULL,
              !.timestamp[node] = 0]

\* LRUCache::LRUCache(cap, ttl)
Construct(cap, ttl, t) ==
    [capacity    |-> IF cap = 0 THEN 1 ELSE cap,
     ttl_seconds |-> ttl,
     wal_stream_ |-> NULL,
     cache       |-> [k \in Keys |-> NULL],
     live        |-> {HEAD, TAIL},
     key         |-> [n \in Nodes |-> EmptyString],
     value       |-> [n \in Nodes |-> EmptyString],
     prev        |-> [n \in Nodes |-> IF n = TAIL THEN HEAD ELSE NULL],
     next        |-> [n \in Nodes |-> IF n = HEAD THEN TAIL ELSE NULL],
     timestamp   |-> [n \in Nodes |-> IF n \in {HEAD, TAIL} THEN t ELSE 0]]

\* cache.size()
Size(c) == Cardinality({k \in Keys : c.cache[k] # NULL})

\* ---------------------------------------------------------- list helpers
\* The four assignments of addNodeToHead, in order (node is never a sentinel,
\* so head->next read at line 239 is the one read at line 237).
addNodeToHead(c, node) ==
    [c EXCEPT !.next[node] = c.next[HEAD],
              !.prev[node] = HEAD,
              !.prev[c.next[HEAD]] = node,
              !.next[HEAD] = node]

\* line 247: node->next->prev = node->prev, after line 246 has run
unlinkFromNext(c, node) == [c EXCEPT !.prev[c.next[node]] = c.prev[node]]

removeNodeFromList(c, node) ==
    IF node = NULL \/ c.prev[node] = NULL \/ c.next[node] = NULL
    THEN c
    ELSE unlinkFromNext([c EXCEPT !.next[c.prev[node]] = c.next[node]], node)

moveToHead_NoMove(c, node) == c

moveToHead(c, node) == addNodeToHead(removeNodeFromList(c, node), node)

popTailNode_FromHead(c) == IF c.prev[TAIL] = HEAD THEN NULL ELSE c.next[HEAD]

\* the node popTail returns (NULL when the list is empty)
popTailNode(c) == IF c.prev[TAIL] = HEAD THEN NULL ELSE c.prev[TAIL]

popTail(c) == removeNodeFromList(c, popTailNode(c))

removeInternal_KeepsIndex(c, node) ==
    IF node = NULL THEN c
    ELSE DeleteNode(removeNodeFromList(c, node), node)

removeInternal(c, node) ==
    IF node = NULL THEN c
    ELSE DeleteNode(removeNodeFromList([c EXCEPT !.cache[c.key[node]] = NULL], node), node)

\* duration_cast<seconds> truncates toward zero
ElapsedSeconds(c, node, t) == (t - c.timestamp[node]) \div TicksPerSec

isExpired_Inclusive(c, node, t) ==
    IF c.ttl_seconds <= 0 THEN FALSE
    ELSE ElapsedSeconds(c, node, t) >= c.ttl_seconds

isExpired(c, node, t) ==
    IF c.ttl_seconds <= 0 THEN FALSE
    ELSE ElapsedSeconds(c, node, t) > c.ttl_seconds

\* ------------------------------------------------------------------- WAL
\* the state of the std::ofstream behind wal_stream_ and of its file
WalState(good, file, free) == [good |-> good, file |-> file, free |-> free]

\* "PUT," + key + "," + value
PutEntry(key, value) == <<"P", "U", "T", ",">> \o key \o <<",">> \o value

\* "DEL," + key
DelEntry(key) == <<"D", "E", "L", ",">> \o key

\* writeLogEntry(entry): the write and the flush succeed when the device has
\* room and reports no error (ioOk).  A stream that is not good() ignores the
\* output and stays so: the code never clears its error state.
writeLogEntry(c, w, entry, ioOk) ==
    IF c.wal_stream_ = NULL THEN [w |-> w, ret |-> TRUE]
    ELSE IF ~w.good THEN [w |-> w, ret |-> FALSE]
    ELSE IF ioOk /\ w.free > 0
         THEN [w |-> [w EXCEPT !.file = Append(@, entry), !.free = @ - 1], ret |-> TRUE]
    ELSE [w |-> [w EXCEPT !.good = FALSE], ret |-> FALSE]

\* setWalStream(stream)
setWalStream(c, stream) == [c EXCEPT !.wal_stream_ = stream]

\* ------------------------------------------------------------- get_sync
\* line 77: return node->value
getFound(c, node) == [c |-> c, ret |-> <<c.value[node]>>]

get_sync_NoReap(c, key, t) ==
    IF c.cache[key] = NULL THEN [c |-> c, ret |-> <<>>]
    ELSE IF isExpired(c, c.cache[key], t) THEN [c |-> c, ret |-> <<>>]
    ELSE getFound([moveToHead(c, c.cache[key]) EXCEPT !.timestamp[c.cache[key]] = t],
                  c.cache[key])

get_sync_NoRefresh(c, key, t) ==
    IF c.cache[key] = NULL THEN [c |-> c, ret |-> <<>>]
    ELSE IF isExpired(c, c.cache[key], t)
         THEN [c |-> removeInternal(c, c.cache[key]), ret |-> <<>>]
    ELSE getFound(moveToHead(c, c.cache[key]), c.cache[key])

\* ret is the std::optional result: <<>> is nullopt, <<v>> holds v
get_sync(c, key, t) ==
    IF c.cache[key] = NULL THEN [c |-> c, ret |-> <<>>]
    ELSE IF isExpired(c, c.cache[key], t)
         THEN [c |-> removeInternal(c, c.cache[key]), ret |-> <<>>]
    ELSE getFound([moveToHead(c, c.cache[key]) EXCEPT !.timestamp[c.cache[key]] = t],
                  c.cache[key])

\* ------------------------------------------------------------- put_sync
\* lines 82-91: find the key, reap it when it is expired
putLookup(c, key, t) ==
    IF c.cache[key] # NULL /\ isExpired(c, c.cache[key], t)
    THEN [c |-> removeInternal(c, c.cache[key]), existing_node |-> NULL]
    ELSE [c |-> c, existing_node |-> c.cache[key]]

atCapacity_OffByOne(c) == Size(c) > c.capacity

\* line 112: cache.size() >= capacity
atCapacity(c) == Size(c) >= c.capacity

\* lines 116-117: cache.erase(tailNode->key); delete tailNode
eraseEvicted(c, tailNode) ==
    [c |-> DeleteNode([c EXCEPT !.cache[c.key[tailNode]] = NULL], tailNode),
     evicted |-> {c.key[tailNode]}]

\* lines 112-119: evict the tail node when the cache is full
putEvict(c) ==
    IF atCapacity(c)
    THEN IF popTailNode(c) # NULL
         THEN eraseEvicted(popTail(c), popTailNode(c))
         ELSE [c |-> popTail(c), evicted |-> {}]
    ELSE [c |-> c, evicted |-> {}]

\* lines 120-122: new Node, cache[key] = newNode, addNodeToHead(newNode)
putInsert(e, newNode, key, value, t) ==
    [c |-> addNodeToHead([NewNode(e.c, newNode, key, value, t) EXCEPT !.cache[key] = newNode],
                         newNode),
     evicted |-> e.evicted]

\* lines 104-124: apply the change to memory
putApply(c, existing_node, key, value, t) ==
    IF existing_node # NULL
    THEN [c |-> moveToHead([c EXCEPT !.value[existing_node] = value,
                                     !.timestamp[existing_node] = t],
                           existing_node),
          evicted |-> {}]
    ELSE putInsert(putEvict(c), Alloc(c, key), key, value, t)

\* line 124: return true
putDone(a, w) == [c |-> a.c, w |-> w, ret |-> TRUE, evicted |-> a.evicted]

\* lines 99-124: after the log write
putLogged(f, lg, key, value, t) ==
    IF ~lg.ret
    THEN [c |-> f.c, w |-> lg.w, ret |-> FALSE, evicted |-> {}]
    ELSE putDone(putApply(f.c, f.existing_node, key, value, t), lg.w)

\* lines 93-124: after the lookup
putFound(f, w, key, value, is_recovery, t, ioOk) ==
    putLogged(f,
              IF ~is_recovery
              THEN writeLogEntry(f.c, w, PutEntry(key, value), ioOk)
              ELSE [w |-> w, ret |-> TRUE],
              key, value, t)

put_sync(c, w, key, value, is_recovery, t, ioOk) ==
    putFound(putLookup(c, key, t), w, key, value, is_recovery, t, ioOk)

\* ---------------------------------------------------------- remove_sync
\* lines 141-148: after the log write
removeLogged(c, lg, node_to_remove) ==
    IF ~lg.ret THEN [c |-> c, w |-> lg.w, ret |-> FALSE]
    ELSE [c |-> removeInternal(c, node_to_remove), w |-> lg.w, ret |-> TRUE]

\* lines 137-144: the DEL record, unless in recovery
removeLog(c, w, key, is_recovery, ioOk) ==
    IF ~is_recovery THEN writeLogEntry(c, w, DelEntry(key), ioOk)
    ELSE [w |-> w, ret |-> TRUE]

remove_sync_ApplyFirst(c, w, key, is_recovery, ioOk) ==
    IF c.cache[key] = NULL THEN [c |-> c, w |-> w, ret |-> TRUE]
    ELSE LET lg == removeLog(c, w, key, is_recovery, ioOk)
         IN  [c |-> removeInternal(c, c.cache[key]), w |-> lg.w, ret |-> lg.ret]

remove_sync_LogAlways(c, w, key, is_recovery, ioOk) ==
    removeLogged(c, removeLog(c, w, key, is_recovery, ioOk), c.cache[key])

remove_sync_AbsentFails(c, w, key, is_recovery, ioOk) ==
    IF c.cache[key] = NULL THEN [c |-> c, w |-> w, ret |-> FALSE]
    ELSE removeLogged(c, removeLog(c, w, key, is_recovery, ioOk), c.cache[key])

remove_sync(c, w, key, is_recovery, ioOk) ==
    IF c.cache[key] = NULL THEN [c |-> c, w |-> w, ret |-> TRUE]
    ELSE removeLogged(c, removeLog(c, w, key, is_recovery, ioOk), c.cache[key])

\* ------------------------------------------------------- the public API
get(c, key, t) == get_sync(c, key, t)
put(c, w, key, value, t, ioOk) == put_sync(c, w, key, value, FALSE, t, ioOk)
remove(c, w, key, ioOk) == remove_sync(c, w, key, FALSE, ioOk)

\* ----------------------------------------------------------- recovery
\* splitString(s, delimiter): std::getline in a loop.  A token ends at the
\* delimiter; the characters after the last delimiter are a token when there
\* is at least one of them.
RECURSIVE splitTokens(_, _, _)
splitTokens(s, delimiter, token) ==
    IF s = <<>> THEN (IF token = <<>> THEN <<>> ELSE <<token>>)
    ELSE IF Head(s) = delimiter
         THEN <<token>> \o splitTokens(Tail(s), delimiter, <<>>)
    ELSE splitTokens(Tail(s), delimiter, Append(token, Head(s)))

splitString(s, delimiter) == splitTokens(s, delimiter, <<>>)

\* the stream loadFromWAL replays into: recovery mode writes no record
NoWal == WalState(TRUE, <<>>, 0)

replayParts_SkipsDel(c, w, parts, t) ==
    IF parts[1] = <<"P", "U", "T">> /\ Len(parts) = 3
    THEN [c |-> put_sync(c, w, parts[2], parts[3], TRUE, t, TRUE).c, w |-> w]
    ELSE [c |-> c, w |-> w]

\* put_sync / remove_sync returned r
replayed(r) == [c |-> r.c, w |-> r.w]

\* lines 205-224: dispatch on the tag and the number of fields
replayParts(c, w, parts, t) ==
    IF parts[1] = <<"P", "U", "T">> /\ Len(parts) = 3
    THEN replayed(put_sync(c, w, parts[2], parts[3], TRUE, t, TRUE))
    ELSE IF parts[1] = <<"D", "E", "L">> /\ Len(parts) = 2
         THEN replayed(remove_sync(c, w, parts[2], TRUE, TRUE))
    ELSE [c |-> c, w |-> w]

\* lines 196-224: one line of the file
replayLine(c, w, line, t) ==
    IF line = <<>> THEN [c |-> c, w |-> w]
    ELSE IF splitString(line, ",") = <<>> THEN [c |-> c, w |-> w]
    ELSE replayParts(c, w, splitString(line, ","), t)

\* loadFromWAL(wal_filename, cache_instance): the lines of the file in order.
\* c is cache_instance and w the log stream it writes to, if it has one; the
\* result is both after the replay (the call returns true for a readable file).
RECURSIVE loadFromWAL(_, _, _, _)
loadFromWAL(file, c, w, t) ==
    IF file = <<>> THEN [c |-> c, w |-> w]
    ELSE loadFromWAL(Tail(file), replayLine(c, w, Head(file), t).c,
                     replayLine(c, w, Head(file), t).w, t)

\* lines 179-188 and 227-230: a file that does not exist (ENOENT) is a first
\* run, the cache is left alone and the call returns true; a file that exists
\* is replayed and the call returns true
LoadWalFile(exists, file, c, w, t) ==
    IF ~exists THEN [c |-> c, w |-> w, ret |-> TRUE]
    ELSE [c |-> loadFromWAL(file, c, w, t).c, w |-> loadFromWAL(file, c, w, t).w, ret |-> TRUE]

\* the lines a log file handed to recovery may hold: the records put and
\* remove write, and lines that are no record: the empty line, an unknown
\* tag, a PUT without value, a DEL with a value, a PUT with a fourth field,
\* and a PUT and a DEL followed by one more comma
WalLines ==
    {PutEntry(key, value) : key \in Keys, value \in Values}
       \cup {DelEntry(key) : key \in Keys}
       \cup {<<>>,
             <<"G", "E", "T", ",", "a">>,
             <<"P", "U", "T", ",", "a">>,
             <<"D", "E", "L", ",", "a", ",", "1">>,
             <<"P", "U", "T", ",", "a", ",", "1", ",", "2">>,
             <<"P", "U", "T", ",", "a", ",", "1", ",">>,
             <<"D", "E", "L", ",", "a", ",">>}

\* the log files of at most n lines
RECURSIVE WalFiles(_)
WalFiles(n) ==
    IF n = 0 THEN {<<>>}
    ELSE WalFiles(n - 1)
            \cup {Append(file, line) : file \in {f \in WalFiles(n - 1) : Len(f) = n - 1},
                                       line \in WalLines}

\* -------------------------------------------------- observation helpers
\* the nodes linked after `node` up to the tail sentinel, following next
RECURSIVE Chain(_, _, _)
Chain(c, node, fuel) ==
    IF node = TAIL \/ node = NULL \/ fuel = 0 THEN <<>>
    ELSE <<node>> \o Chain(c, c.next[node], fuel - 1)

\* the recency list as print() walks it: head->next ... tail
ListNodes(c) == Chain(c, c.next[HEAD], Cardinality(Nodes))
ListKeys(c) == [i \in 1 .. Len(ListNodes(c)) |-> c.key[ListNodes(c)[i]]]
IndexKeys(c) == {k \in Keys : c.cache[k] # NULL}

\* the key at the most-recently-used end, as a set (empty list: {})
MRU(c) == IF c.next[HEAD] = TAIL THEN {} ELSE {c.key[c.next[HEAD]]}
\* the key at the least-recently-used end
LRU(c) == IF c.prev[TAIL] = HEAD THEN {} ELSE {c.key[c.prev[TAIL]]}

\* what a client can observe of the store: bindings and recency order
Bindings(c) == [k \in Keys |-> IF c.cache[k] = NULL THEN <<>> ELSE <<c.value[c.cache[k]]>>]
StoreView(c) == [bindings |-> Bindings(c), order |-> ListKeys(c)]

\* --------------------------------------------------------------- ghosts
\* touchSeq is a sequence of [key, at]: key was last touched successfully
\* (a put that returned true, a get that returned a value) at time `at`.
RECURSIVE SeqWithout(_, _)
SeqWithout(s, k) ==
    IF s = <<>> THEN <<>>
    ELSE IF Head(s).key = k THEN SeqWithout(Tail(s), k)
    ELSE <<Head(s)>> \o SeqWithout(Tail(s), k)

RECURSIVE SeqRestrict(_, _)
SeqRestrict(s, S) ==
    IF s = <<>> THEN <<>>
    ELSE IF Head(s).key \in S THEN <<Head(s)>> \o SeqRestrict(Tail(s), S)
    ELSE SeqRestrict(Tail(s), S)

\* record a successful touch of key k, then forget the keys no longer resident
Touched(seq, k, t, c) ==
    SeqRestrict(<<[key |-> k, at |-> t]>> \o SeqWithout(seq, k), IndexKeys(c))
Untouched(seq, c) == SeqRestrict(seq, IndexKeys(c))

\* the resident key with the oldest successful touch, as a set
Oldest(seq) == IF seq = <<>> THEN {} ELSE {seq[Len(seq)].key}

\* ticks since the last successful touch of k; -1 when k is not resident
Age(seq, k, t) ==
    IF \E i \in 1 .. Len(seq) : seq[i].key = k
    THEN t - seq[CHOOSE i \in 1 .. Len(seq) : seq[i].key = k].at
    ELSE -1

\* op: the operation; key: its key; ok: the bool it returned; ret: the
\* optional a get returned; evicted: the key a put evicted; age: Age of the
\* key when a get began
Op(op, key, ok, ret, evicted, age) ==
    [op |-> op, key |-> key, ok |-> ok, ret |-> ret, evicted |-> evicted, age |-> age]

NoOp(op) == Op(op, EmptyString, TRUE, <<>>, {}, -1)

\* ----------------------------------------------------------------- Init
Idle == [op |-> "none", key |-> EmptyString, value |-> EmptyString, existing_node |-> NULL]

\* no call holds the mutex
NoSnap == [held |-> FALSE, c |-> NULL, w |-> NULL]

\* ReplicationTask: the request it carries (op_type, key, value)
Task(op_type, key, value) == [op_type |-> op_type, key |-> key, value |-> value]
NoTask == Task("none", EmptyString, EmptyString)

\* CacheServiceImpl after its constructor: the queue is empty, the stop flag
\* is false, the worker thread is at the top of its loop; the replica node
\* has started over an empty log
InitService ==
    /\ replication_queue_ = <<>>
    /\ queue_mutex_ = NoThread
    /\ stop_replication_ = FALSE
    /\ wpc = "loop"
    /\ task = NoTask
    /\ dpc = "serving"
    /\ replica = setWalStream(Construct(MaxCap, 0, 0), STREAM)
    /\ pushed = <<>>
    /\ delivered = <<>>

InitThreads ==
    /\ mtx = NoThread
    /\ pc = [t \in Threads |-> "idle"]
    /\ req = [t \in Threads |-> Idle]
    /\ applied = <<>>
    /\ snap = NoSnap
    /\ InitService

\* a constructed cache, no WAL stream attached
InitCache(ttls) ==
    /\ \E cap \in 0 .. MaxCap, ttl \in ttls : lru = Construct(cap, ttl, 0)
    /\ wal_good = TRUE
    /\ wal_file = <<>>
    /\ now = 0
    /\ last = NoOp("new")
    /\ touchSeq = <<>>
    /\ InitThreads

\* Spec: the WAL device accepts no line, so every append fails
Init ==
    /\ InitCache(-1 .. MaxTTL)
    /\ disk_free = 0

w0 == WalState(wal_good, wal_file, disk_free)

\* whether the device may report an error: only for a write that reaches it
IoOutcomes(c) ==
    IF c.wal_stream_ # NULL /\ wal_good /\ disk_free > 0 THEN BOOLEAN ELSE {TRUE}

\* -------------------------------------------------------------- actions
\* the state after put_sync returned r
PutResult(r, key, is_recovery) ==
    /\ lru' = r.c
    /\ wal_good' = r.w.good
    /\ wal_file' = r.w.file
    /\ disk_free' = r.w.free
    /\ touchSeq' = IF r.ret THEN Touched(touchSeq, key, now, r.c)
                   ELSE Untouched(touchSeq, r.c)
    /\ last' = Op(IF is_recovery THEN "rput" ELSE "put", key, r.ret, <<>>, r.evicted, -1)
    /\ UNCHANGED <<now, conc>>

DoPut(key, value, is_recovery, ioOk) ==
    PutResult(put_sync(lru, w0, key, value, is_recovery, now, ioOk), key, is_recovery)

\* put(key, value) for one of the values
PutOf(values) ==
    \E key \in Keys, value \in values, ioOk \in IoOutcomes(lru) :
       DoPut(key, value, FALSE, ioOk)

Put == PutOf(Values)

\* put_sync(key, value, true), as loadFromWAL calls it
RecoveryPut ==
    \E key \in Keys, value \in Values : DoPut(key, value, TRUE, TRUE)

\* the state after get returned r
GetResult(r, key) ==
    /\ lru' = r.c
    /\ touchSeq' = IF r.ret # <<>> THEN Touched(touchSeq, key, now, r.c)
                   ELSE Untouched(touchSeq, r.c)
    /\ last' = Op("get", key, TRUE, r.ret, {}, Age(touchSeq, key, now))
    /\ UNCHANGED <<wal_good, wal_file, disk_free, now, conc>>

Get ==
    \E key \in Keys : GetResult(get(lru, key, now), key)

\* the state after remove_sync returned r
RemoveResult(r, key, is_recovery) ==
    /\ lru' = r.c
    /\ wal_good' = r.w.good
    /\ wal_file' = r.w.file
    /\ disk_free' = r.w.free
    /\ touchSeq' = Untouched(touchSeq, r.c)
    /\ last' = Op(IF is_recovery THEN "rremove" ELSE "remove", key, r.ret, <<>>, {}, -1)
    /\ UNCHANGED <<now, conc>>

DoRemove(key, is_recovery, ioOk) ==
    RemoveResult(remove_sync(lru, w0, key, is_recovery, ioOk), key, is_recovery)

Remove ==
    \E key \in Keys, ioOk \in IoOutcomes(lru) : DoRemove(key, FALSE, ioOk)

\* remove_sync(key, true), as loadFromWAL calls it
RecoveryRemove ==
    \E key \in Keys : DoRemove(key, TRUE, TRUE)

SetWalStream ==
    \E stream \in {NULL, STREAM} :
       /\ lru' = setWalStream(lru, stream)
       /\ last' = NoOp("setWalStream")
       /\ UNCHANGED <<wal_good, wal_file, disk_free, now, touchSeq, conc>>

\* the steady clock advances; the code reads it only when TTL is enabled
Tick ==
    /\ lru.ttl_seconds > 0
    /\ now < MaxTime
    /\ now' = now + 1
    /\ last' = NoOp("tick")
    /\ UNCHANGED <<lru, wal_good, wal_file, disk_free, touchSeq, conc>>

Next ==
    \/ Put
    \/ RecoveryPut
    \/ Get
    \/ Remove
    \/ RecoveryRemove
    \/ SetWalStream
    \/ Tick

Spec == Init /\ [][Next]_vars

\* SpecWal: the server after startup over an empty log (cache_server.cpp
\* main): cache constructed, WAL stream opened and attached, TTL disabled.
\* The device accepts MaxLog lines and may report an error on any write.
InitWal ==
    /\ \E cap \in 0 .. MaxCap : lru = setWalStream(Construct(cap, 0, 0), STREAM)
    /\ wal_good = TRUE
    /\ wal_file = <<>>
    /\ disk_free = MaxLog
    /\ now = 0
    /\ last = NoOp("new")
    /\ touchSeq = <<>>
    /\ InitThreads

NextWal ==
    \/ Put
    \/ Get
    \/ Remove

SpecWal == InitWal /\ [][NextWal]_vars

\* SpecRun: the server of SpecWal on a device that accepts MaxRun lines.
InitRun ==
    /\ \E cap \in 0 .. MaxCap : lru = setWalStream(Construct(cap, 0, 0), STREAM)
    /\ wal_good = TRUE
    /\ wal_file = <<>>
    /\ disk_free = MaxRun
    /\ now = 0
    /\ last = NoOp("new")
    /\ touchSeq = <<>>
    /\ InitThreads

SpecRun == InitRun /\ [][NextWal]_vars

\* SpecPutDel: the same server when its clients only put and delete
NextPutDel ==
    \/ Put
    \/ Remove

SpecPutDel == InitRun /\ [][NextPutDel]_vars

\* the restart over the log of the run: main constructs the cache with the
\* configured capacity and TTL and replays the file into it
Restarted == loadFromWAL(wal_file, Construct(lru.capacity, lru.ttl_seconds, now), NoWal, now).c

\* values that hold a separator of the log format: a comma, a newline
DirtyValues == {<<"1", ",", "2">>, <<"1", "\n", "2">>}

\* SpecDirty: the server of SpecWal when its clients put and delete, the
\* values of the puts being any strings, with or without a separator
NextDirty ==
    \/ PutOf(Values \cup DirtyValues)
    \/ Remove

SpecDirty == InitWal /\ [][NextDirty]_vars

\* line 195: std::getline(wal_file, line) over the file: writeLogEntry ends
\* every entry with a newline, a newline inside an entry ends a line too
RECURSIVE ReadLines(_)
ReadLines(file) ==
    IF file = <<>> THEN <<>>
    ELSE splitString(Append(Head(file), "\n"), "\n") \o ReadLines(Tail(file))

\* SpecRecover: main at startup.  The cache is constructed, then loadFromWAL
\* reads the log file, which holds any lines or does not exist.
InitRecover ==
    /\ \E cap \in 0 .. MaxCap : lru = Construct(cap, 0, 0)
    /\ wal_file \in WalFiles(MaxFile)
    /\ wal_good = TRUE
    /\ disk_free = 0
    /\ now = 0
    /\ last = NoOp("new")
    /\ touchSeq = <<>>
    /\ InitThreads

\* the state after loadFromWAL returned r
RecoverResult(r, exists) ==
    /\ lru' = r.c
    /\ last' = Op(IF exists THEN "loadFromWAL" ELSE "loadFromWAL-ENOENT",
                  EmptyString, r.ret, <<>>, {}, -1)
    /\ UNCHANGED <<wal_good, wal_file, disk_free, now, touchSeq, conc>>

\* main line 415: loadFromWAL(config.wal_file, shared_cache); a file
\* without lines may be a file that does not exist
Recover ==
    /\ last.op = "new"
    /\ \E exists \in (IF wal_file = <<>> THEN BOOLEAN ELSE {TRUE}) :
          RecoverResult(LoadWalFile(exists, wal_file, lru, NoWal, now), exists)

SpecRecover == InitRecover /\ [][Recover]_vars

\* ------------------------------------------------- concurrent callers
\* SpecConc: NumThreads threads call put, remove and get on the cache of
\* SpecWal.  A call takes the mutex on entry (std::lock_guard) and gives it
\* back on return; between the two it runs in the steps below.

MutexFree_NoExclusion == TRUE

\* std::lock_guard<std::mutex> lock(mtx) can be taken
MutexFree == mtx = NoThread

\* the call of thread t returns ok (a bool) or ret (an optional): the
\* lock_guard gives the mutex back
Return(t, ok, ret) ==
    /\ mtx' = NoThread
    /\ pc' = [pc EXCEPT ![t] = "idle"]
    /\ req' = [req EXCEPT ![t] = Idle]
    /\ snap' = NoSnap
    /\ last' = Op(req[t].op, req[t].key, ok, ret, {}, -1)

\* a thread enters put_sync, remove_sync or get_sync and takes the mutex
Lock(t) ==
    /\ pc[t] = "idle"
    /\ MutexFree
    /\ \E op \in {"put", "remove", "get"}, key \in Keys, value \in Values :
          req' = [req EXCEPT ![t] = [op |-> op, key |-> key,
                                    value |-> IF op = "put" THEN value ELSE EmptyString,
                                    existing_node |-> NULL]]
    /\ mtx' = t
    /\ pc' = [pc EXCEPT ![t] = "locked"]
    /\ snap' = [held |-> TRUE, c |-> lru, w |-> w0]
    /\ UNCHANGED <<lru, wal_good, wal_file, disk_free, now, last, touchSeq, applied, srv>>

\* the state after the lookup f and the log write lg of put_sync
PutLogResult(t, f, lg) ==
    /\ lru' = f.c
    /\ wal_good' = lg.w.good
    /\ wal_file' = lg.w.file
    /\ disk_free' = lg.w.free
    /\ IF lg.ret
       THEN /\ pc' = [pc EXCEPT ![t] = "logged"]
            /\ req' = [req EXCEPT ![t].existing_node = f.existing_node]
            /\ UNCHANGED <<mtx, snap, last>>
       ELSE Return(t, FALSE, <<>>)

\* put_sync lines 82-102: look the key up, write the PUT record
PutLog(t) ==
    /\ pc[t] = "locked" /\ req[t].op = "put"
    /\ \E ioOk \in IoOutcomes(lru) :
          PutLogResult(t, putLookup(lru, req[t].key, now),
                       writeLogEntry(putLookup(lru, req[t].key, now).c, w0,
                                     PutEntry(req[t].key, req[t].value), ioOk))
    /\ UNCHANGED <<now, touchSeq, applied, srv>>

\* put_sync lines 104-124: apply the put to memory, return true
PutApply(t) ==
    /\ pc[t] = "logged" /\ req[t].op = "put"
    /\ lru' = putApply(lru, req[t].existing_node, req[t].key, req[t].value, now).c
    /\ applied' = Append(applied, [entry |-> PutEntry(req[t].key, req[t].value), by |-> t])
    /\ Return(t, TRUE, <<>>)
    /\ UNCHANGED <<wal_good, wal_file, disk_free, now, touchSeq, srv>>

\* the state after the log write lg of remove_sync
RemoveLogResult(t, lg, node_to_remove) ==
    /\ wal_good' = lg.w.good
    /\ wal_file' = lg.w.file
    /\ disk_free' = lg.w.free
    /\ IF lg.ret
       THEN /\ pc' = [pc EXCEPT ![t] = "logged"]
            /\ req' = [req EXCEPT ![t].existing_node = node_to_remove]
            /\ UNCHANGED <<mtx, snap, last>>
       ELSE Return(t, FALSE, <<>>)

\* remove_sync lines 129-144: look the key up, write the DEL record
RemoveLog(t) ==
    /\ pc[t] = "locked" /\ req[t].op = "remove"
    /\ \E ioOk \in IoOutcomes(lru) :
          IF lru.cache[req[t].key] = NULL
          THEN /\ Return(t, TRUE, <<>>)
               /\ UNCHANGED <<wal_good, wal_file, disk_free>>
          ELSE RemoveLogResult(t, writeLogEntry(lru, w0, DelEntry(req[t].key), ioOk),
                               lru.cache[req[t].key])
    /\ UNCHANGED <<lru, now, touchSeq, applied, srv>>

\* remove_sync line 147: apply the removal to memory, return true
RemoveApply(t) ==
    /\ pc[t] = "logged" /\ req[t].op = "remove"
    /\ lru' = removeInternal(lru, req[t].existing_node)
    /\ applied' = Append(applied, [entry |-> DelEntry(req[t].key), by |-> t])
    /\ Return(t, TRUE, <<>>)
    /\ UNCHANGED <<wal_good, wal_file, disk_free, now, touchSeq, srv>>

\* get_sync lines 65-77
GetBody(t) ==
    /\ pc[t] = "locked" /\ req[t].op = "get"
    /\ lru' = get_sync(lru, req[t].key, now).c
    /\ Return(t, TRUE, get_sync(lru, req[t].key, now).ret)
    /\ UNCHANGED <<wal_good, wal_file, disk_free, now, touchSeq, applied, srv>>

NextConc ==
    \E t \in Threads :
       \/ Lock(t)
       \/ PutLog(t)
       \/ PutApply(t)
       \/ RemoveLog(t)
       \/ RemoveApply(t)
       \/ GetBody(t)

SpecConc == InitWal /\ [][NextConc]_vars

\* ------------------------------------------------- the replication service
\* SpecServer: a primary (CacheServiceImpl with one replica stub) over the
\* cache and the log of SpecRun.  NumThreads transport threads run the
\* client handlers; one worker thread runs ReplicationWorkerLoop; the
\* destructor runs once no handler is running.  LRUCache::put and remove
\* are single steps here: SpecConc shows their calls are serialisable.

WORKER == NumThreads + 1

\* ReplicationRequest::PUT carries key and value, DEL only the key
PutTask(key, value) == Task("PUT", key, value)
DelTask(key) == Task("DEL", key, EmptyString)

\* the log record a task is the projection of
TaskEntry(tk) == IF tk.op_type = "PUT" THEN PutEntry(tk.key, tk.value) ELSE DelEntry(tk.key)

\* applyReplicatedPut / applyReplicatedRemove: put and remove in recovery mode
applyReplicatedPut(c, w, key, value, t) == put_sync(c, w, key, value, TRUE, t, TRUE)
applyReplicatedRemove(c, w, key) == remove_sync(c, w, key, TRUE, TRUE)

\* lines 266-276: the reply after the cache applied the operation
applyReply(r, q) ==
    [c |-> r.c, w |-> r.w, q |-> q, success |-> r.ret, status |-> "OK"]

ApplyOperation_Reenqueues(c, w, q, request, t) ==
    IF request.op_type = "PUT"
    THEN applyReply(applyReplicatedPut(c, w, request.key, request.value, t), Append(q, request))
    ELSE IF request.op_type = "DEL"
    THEN applyReply(applyReplicatedRemove(c, w, request.key), Append(q, request))
    ELSE [c |-> c, w |-> w, q |-> q, success |-> FALSE, status |-> "INVALID_ARGUMENT"]

ApplyOperation_ElseDel(c, w, q, request, t) ==
    IF request.op_type = "PUT"
    THEN applyReply(applyReplicatedPut(c, w, request.key, request.value, t), q)
    ELSE applyReply(applyReplicatedRemove(c, w, request.key), q)

\* ApplyOperation(request): c, w and q are the cache, the log and the
\* replication queue of the node that serves the call
ApplyOperation(c, w, q, request, t) ==
    IF request.op_type = "PUT"
    THEN applyReply(applyReplicatedPut(c, w, request.key, request.value, t), q)
    ELSE IF request.op_type = "DEL"
    THEN applyReply(applyReplicatedRemove(c, w, request.key), q)
    ELSE [c |-> c, w |-> w, q |-> q, success |-> FALSE, status |-> "INVALID_ARGUMENT"]

\* position in `applied` of the mutation thread t is replicating
LastBy(seq, t) == CHOOSE i \in 1 .. Len(seq) :
                     seq[i].by = t /\ \A j \in (i + 1) .. Len(seq) : seq[j].by # t

Notified_Lost(w) == w

\* queue_cv_.notify_one() / notify_all(): a worker blocked in wait wakes up
Notified(w) == IF w = "blocked" THEN "relock" ELSE w

localAccepted_Always(ret) == TRUE

\* lines 186 and 218: the handler goes on when the local call returned true
localAccepted(ret) == ret

\* lines 186-190, 218-222: the local call r of thread t for the task tk;
\* found: the key was in the index when the call began
LocalResult(t, r, tk, found) ==
    /\ lru' = r.c
    /\ wal_good' = r.w.good
    /\ wal_file' = r.w.file
    /\ disk_free' = r.w.free
    /\ IF localAccepted(r.ret)
       THEN /\ pc' = [pc EXCEPT ![t] = "applied"]
            /\ req' = [req EXCEPT ![t] = [op |-> tk.op_type, key |-> tk.key,
                                          value |-> tk.value, existing_node |-> NULL]]
            /\ applied' = Append(applied, [entry |-> TaskEntry(tk), by |-> t,
                                           logged |-> r.w.file # wal_file,
                                           found |-> found])
       ELSE UNCHANGED <<pc, req, applied>>
    /\ UNCHANGED <<now, last, touchSeq, mtx, snap, srv>>

\* Put, line 186: lru_cache_.put(key, value), in a run of at most n
\* accepted mutations
ClientPutUpTo(t, n) ==
    /\ pc[t] = "idle" /\ dpc = "serving" /\ Len(applied) < n
    /\ \E key \in Keys, value \in Values, ioOk \in IoOutcomes(lru) :
          LocalResult(t, put(lru, w0, key, value, now, ioOk), PutTask(key, value),
                      key \in IndexKeys(lru))

ClientPut(t) == ClientPutUpTo(t, MaxOps)

\* Delete, line 218: lru_cache_.remove(key), in a run of at most n accepted
\* mutations
ClientDeleteUpTo(t, n) ==
    /\ pc[t] = "idle" /\ dpc = "serving" /\ Len(applied) < n
    /\ \E key \in Keys, ioOk \in IoOutcomes(lru) :
          LocalResult(t, remove(lru, w0, key, ioOk), DelTask(key), key \in IndexKeys(lru))

ClientDelete(t) == ClientDeleteUpTo(t, MaxOps)

\* Put lines 193-203, Delete lines 225-235: build the task and push it
\* under queue_mutex_
Enqueue(t) ==
    /\ pc[t] = "applied"
    /\ queue_mutex_ = NoThread
    /\ replication_queue_' = Append(replication_queue_,
                                    Task(req[t].op, req[t].key, req[t].value))
    /\ pushed' = Append(pushed, [task |-> Task(req[t].op, req[t].key, req[t].value),
                                 seq |-> LastBy(applied, t)])
    /\ pc' = [pc EXCEPT ![t] = "pushed"]
    /\ UNCHANGED <<lru, wal_good, wal_file, disk_free, now, last, touchSeq, mtx, req,
                   applied, snap, queue_mutex_, stop_replication_, wpc, task, dpc,
                   replica, delivered>>

\* Put lines 204-210, Delete lines 236-242: notify_one, reply success
NotifyReply(t) ==
    /\ pc[t] = "pushed"
    /\ wpc' = Notified(wpc)
    /\ pc' = [pc EXCEPT ![t] = "idle"]
    /\ req' = [req EXCEPT ![t] = Idle]
    /\ UNCHANGED <<lru, wal_good, wal_file, disk_free, now, last, touchSeq, mtx,
                   applied, snap, replication_queue_, queue_mutex_, stop_replication_,
                   task, dpc, replica, pushed, delivered>>

\* Get, lines 154-178
ClientGet(t) ==
    /\ pc[t] = "idle" /\ dpc = "serving"
    /\ \E key \in Keys : lru' = get(lru, key, now).c
    /\ UNCHANGED <<wal_good, wal_file, disk_free, now, last, touchSeq, conc>>

\* the requests another primary may send to this node
Requests == {PutTask(key, value) : key \in Keys, value \in Values}
               \cup {DelTask(key) : key \in Keys}

\* those, and requests whose op_type is neither PUT nor DEL (op_type is an
\* enum field of the message)
AnyRequests == Requests \cup {Task("UNKNOWN", key, EmptyString) : key \in Keys}

\* the state after ApplyOperation returned r
ApplyResult(r, request) ==
    /\ lru' = r.c
    /\ wal_good' = r.w.good
    /\ wal_file' = r.w.file
    /\ disk_free' = r.w.free
    /\ replication_queue_' = r.q
    /\ last' = Op("apply", request.key, r.success, <<>>, {}, -1)
    /\ UNCHANGED <<now, touchSeq, mtx, pc, req, applied, snap, queue_mutex_,
                   stop_replication_, wpc, task, dpc, replica, pushed, delivered>>

\* ApplyOperation served by this node for one of the requests
NodeApplyOf(requests) ==
    /\ dpc = "serving"
    /\ \E request \in requests :
          ApplyResult(ApplyOperation(lru, w0, replication_queue_, request, now), request)

\* ApplyOperation served by this node (it is the replica of another primary)
NodeApply == NodeApplyOf(Requests)

\* ---- ReplicationWorkerLoop
\* the shared frame of the worker's steps
WorkerFrame ==
    UNCHANGED <<lru, wal_good, wal_file, disk_free, now, last, touchSeq, mtx, pc, req,
                applied, snap, stop_replication_, dpc, pushed>>

\* line 71: while (!stop_replication_)
WorkerLoop ==
    /\ wpc = "loop"
    /\ wpc' = IF stop_replication_ THEN "exited" ELSE "lock"
    /\ UNCHANGED <<replication_queue_, queue_mutex_, task, replica, delivered>>
    /\ WorkerFrame

\* line 74, and the end of a wait: take queue_mutex_
WorkerLock ==
    /\ wpc \in {"lock", "relock"}
    /\ queue_mutex_ = NoThread
    /\ queue_mutex_' = WORKER
    /\ wpc' = "wait"
    /\ UNCHANGED <<replication_queue_, task, replica, delivered>>
    /\ WorkerFrame

\* line 76: the predicate of queue_cv_.wait
WaitPredicate == replication_queue_ # <<>> \/ stop_replication_

\* line 76: wait(lock, pred) is while (!pred()) wait(lock).  The worker
\* evaluates pred holding queue_mutex_: it goes on when pred holds, else it
\* is about to call wait(lock)
WorkerWait ==
    /\ wpc = "wait"
    /\ wpc' = IF WaitPredicate THEN "check" ELSE "blocking"
    /\ UNCHANGED <<replication_queue_, queue_mutex_, task, replica, delivered>>
    /\ WorkerFrame

\* line 76: wait(lock) gives the mutex back and blocks, in one step; a
\* notification sent before this step does not reach the worker
WorkerBlock ==
    /\ wpc = "blocking"
    /\ wpc' = "blocked"
    /\ queue_mutex_' = NoThread
    /\ UNCHANGED <<replication_queue_, task, replica, delivered>>
    /\ WorkerFrame

\* a condition variable may wake a waiter without a notification
WorkerSpuriousWake ==
    /\ wpc = "blocked"
    /\ wpc' = "relock"
    /\ UNCHANGED <<replication_queue_, queue_mutex_, task, replica, delivered>>
    /\ WorkerFrame

WorkerUnlock_KeepsMutex(m) == m

\* line 84: the unique_lock goes out of scope
WorkerUnlock(m) == NoThread

front_Back(q) == q[Len(q)]

\* line 82: replication_queue_.front()
front(q) == Head(q)

\* lines 78-84: leave when stopped and drained, else take the front task
WorkerDequeue ==
    /\ wpc = "check"
    /\ IF stop_replication_ /\ replication_queue_ = <<>>
       THEN /\ wpc' = "exited"
            /\ queue_mutex_' = NoThread
            /\ UNCHANGED <<replication_queue_, task>>
       ELSE /\ task' = front(replication_queue_)
            /\ replication_queue_' = Tail(replication_queue_)
            /\ queue_mutex_' = WorkerUnlock(queue_mutex_)
            /\ wpc' = "send"
    /\ UNCHANGED <<replica, delivered>>
    /\ WorkerFrame

WorkerSend_Reenqueues(outcomes) ==
    /\ wpc = "send"
    /\ \E outcome \in outcomes :
          IF outcome = "ok"
          THEN /\ replica' = ApplyOperation(replica, NoWal, <<>>, task, now).c
               /\ delivered' = Append(delivered, task)
               /\ UNCHANGED replication_queue_
          ELSE /\ replication_queue_' = Append(replication_queue_, task)
               /\ UNCHANGED <<replica, delivered>>
    /\ wpc' = "loop"
    /\ task' = NoTask
    /\ UNCHANGED queue_mutex_
    /\ WorkerFrame

\* lines 89-110: stub->ApplyOperation on the replica.  "ok": the replica
\* served the call; "failed": the call ended with an error status (replica
\* unreachable, deadline exceeded).  The task is not sent again.
WorkerSend(outcomes) ==
    /\ wpc = "send"
    /\ \E outcome \in outcomes :
          IF outcome = "ok"
          THEN /\ replica' = ApplyOperation(replica, NoWal, <<>>, task, now).c
               /\ delivered' = Append(delivered, task)
          ELSE UNCHANGED <<replica, delivered>>
    /\ wpc' = "loop"
    /\ task' = NoTask
    /\ UNCHANGED <<replication_queue_, queue_mutex_>>
    /\ WorkerFrame

\* ---- ~CacheServiceImpl
DestructorFrame ==
    UNCHANGED <<lru, wal_good, wal_file, disk_free, now, last, touchSeq, mtx, pc, req,
                applied, snap, replication_queue_, queue_mutex_, task, replica,
                pushed, delivered>>

\* line 141: stop_replication_ = true (queue_mutex_ is not taken)
DestructorStop ==
    /\ dpc = "serving"
    /\ \A t \in Threads : pc[t] = "idle"
    /\ stop_replication_' = TRUE
    /\ dpc' = "stopping"
    /\ UNCHANGED wpc
    /\ DestructorFrame

\* line 142: queue_cv_.notify_all()
DestructorNotify ==
    /\ dpc = "stopping"
    /\ wpc' = Notified(wpc)
    /\ dpc' = "joining"
    /\ UNCHANGED stop_replication_
    /\ DestructorFrame

\* lines 143-147: worker.join()
DestructorJoin ==
    /\ dpc = "joining"
    /\ wpc = "exited"
    /\ dpc' = "joined"
    /\ UNCHANGED <<stop_replication_, wpc>>
    /\ DestructorFrame

\* main: the cache is constructed with the configured capacity, the log is
\* attached, the service is constructed
InitServer ==
    /\ lru = setWalStream(Construct(MaxCap, 0, 0), STREAM)
    /\ wal_good = TRUE
    /\ wal_file = <<>>
    /\ disk_free = MaxRun
    /\ now = 0
    /\ last = NoOp("new")
    /\ touchSeq = <<>>
    /\ InitThreads

Handlers(t) ==
    \/ ClientPut(t)
    \/ ClientDelete(t)
    \/ Enqueue(t)
    \/ NotifyReply(t)
    \/ ClientGet(t)

Worker(outcomes) ==
    \/ WorkerLoop
    \/ WorkerLock
    \/ WorkerWait
    \/ WorkerBlock
    \/ WorkerDequeue
    \/ WorkerSend(outcomes)

Destructor ==
    \/ DestructorStop
    \/ DestructorNotify
    \/ DestructorJoin

NextServer ==
    \/ \E t \in Threads : Handlers(t)
    \/ Worker({"ok", "failed"})
    \/ WorkerSpuriousWake
    \/ Destructor

SpecServer == InitServer /\ [][NextServer]_vars

\* SpecNode: the node of SpecServer with one transport thread, which also
\* serves the ApplyOperation calls of another primary
NextNode ==
    \/ Handlers(1)
    \/ NodeApply

SpecNode == InitServer /\ [][NextNode]_vars

\* SpecServer1: the primary of SpecServer with one client at a time
NextServer1 ==
    \/ Handlers(1)
    \/ Worker({"ok", "failed"})
    \/ WorkerSpuriousWake
    \/ Destructor

SpecServer1 == InitServer /\ [][NextServer1]_vars

\* SpecClients: SpecServer where every thread that can run does run: a
\* handler that has applied its mutation goes on to push and to reply, the
\* worker goes on while it holds queue_mutex_.  Nothing makes a call to the
\* replica return: WorkerSend carries no fairness.
ClientsFair ==
    /\ \A t \in Threads : SF_vars(Enqueue(t)) /\ WF_vars(NotifyReply(t))
    /\ WF_vars(WorkerWait)
    /\ WF_vars(WorkerBlock)
    /\ WF_vars(WorkerDequeue)

SpecClients == InitServer /\ [][NextServer]_vars /\ ClientsFair

\* SpecRepl: the running primary (no shutdown) with a replica that serves
\* every call; every thread that can run does run.
NextRepl ==
    \/ \E t \in Threads : Handlers(t)
    \/ Worker({"ok"})
    \/ WorkerSpuriousWake

ReplFair ==
    /\ \A t \in Threads : SF_vars(Enqueue(t)) /\ WF_vars(NotifyReply(t))
    /\ WF_vars(Worker({"ok"}))

SpecRepl == InitServer /\ [][NextRepl]_vars /\ ReplFair

\* ---- the remote operations and their replies
\* SpecRpc: the primary serves one client at a time; each handler runs from
\* the request to its reply in one step.  The cache has a TTL or none, the
\* device of the log accepts MaxLog lines, a value may be the empty string.
RpcValues == {EmptyString, <<"1">>}

\* a handler returned: the request it served, the response message and the
\* status; age: Age of the key when the handler began
Reply(rpc, key, response, age) ==
    [op |-> rpc, key |-> key, response |-> response, age |-> age]

GetResponse_NonEmpty(value_opt) ==
    IF value_opt # <<>> /\ value_opt[1] # EmptyString
    THEN [value |-> value_opt[1], found |-> TRUE, status |-> "OK"]
    ELSE [value |-> EmptyString, found |-> FALSE, status |-> "OK"]

\* Get, lines 168-177: the response for the optional the cache returned
GetResponse(value_opt) ==
    IF value_opt # <<>>
    THEN [value |-> value_opt[1], found |-> TRUE, status |-> "OK"]
    ELSE [value |-> EmptyString, found |-> FALSE, status |-> "OK"]

\* the state after the Get handler got r from the cache
RpcGetResult(r, key) ==
    /\ lru' = r.c
    /\ touchSeq' = IF r.ret # <<>> THEN Touched(touchSeq, key, now, r.c)
                   ELSE Untouched(touchSeq, r.c)
    /\ last' = Reply("Get", key, GetResponse(r.ret), Age(touchSeq, key, now))
    /\ UNCHANGED <<wal_good, wal_file, disk_free, now, conc>>

\* Get, lines 154-178
RpcGet ==
    \E key \in Keys : RpcGetResult(get(lru, key, now), key)

mutationReply_AlwaysSuccess(ret) == [success |-> TRUE, status |-> "OK"]

\* Put lines 187-189 and 208-210, Delete lines 219-221 and 240-242: the
\* response and the status for the bool the cache returned
mutationReply(ret) == [success |-> ret, status |-> IF ret THEN "OK" ELSE "INTERNAL"]

\* the state after the local call r of the Put or Delete handler for the
\* task tk: when the cache returned true the task is pushed and a worker is
\* notified, then the handler replies
RpcMutationResult(rpc, r, tk) ==
    /\ lru' = r.c
    /\ wal_good' = r.w.good
    /\ wal_file' = r.w.file
    /\ disk_free' = r.w.free
    /\ touchSeq' = IF rpc = "Put" /\ r.ret THEN Touched(touchSeq, tk.key, now, r.c)
                   ELSE Untouched(touchSeq, r.c)
    /\ IF localAccepted(r.ret)
       THEN /\ replication_queue_' = Append(replication_queue_, tk)
            /\ pushed' = Append(pushed, [task |-> tk, seq |-> Len(pushed) + 1])
            /\ wpc' = Notified(wpc)
       ELSE UNCHANGED <<replication_queue_, pushed, wpc>>
    /\ last' = Reply(rpc, tk.key, mutationReply(r.ret), -1)
    /\ UNCHANGED <<now, mtx, pc, req, applied, snap, queue_mutex_, stop_replication_,
                   task, dpc, replica, delivered>>

\* Put, lines 180-211
RpcPut ==
    /\ Len(pushed) < MaxOps
    /\ \E key \in Keys, value \in RpcValues, ioOk \in IoOutcomes(lru) :
          RpcMutationResult("Put", put(lru, w0, key, value, now, ioOk), PutTask(key, value))

\* Delete, lines 213-243
RpcDelete ==
    /\ Len(pushed) < MaxOps
    /\ \E key \in Keys, ioOk \in IoOutcomes(lru) :
          RpcMutationResult("Delete", remove(lru, w0, key, ioOk), DelTask(key))

\* main: the cache with the configured TTL, the log attached, the service
InitRpc ==
    /\ \E ttl \in {0, MaxTTL} : lru = setWalStream(Construct(MaxCap, ttl, 0), STREAM)
    /\ wal_good = TRUE
    /\ wal_file = <<>>
    /\ disk_free = MaxLog
    /\ now = 0
    /\ last = NoOp("new")
    /\ touchSeq = <<>>
    /\ InitThreads

NextRpc ==
    \/ RpcGet
    \/ RpcPut
    \/ RpcDelete
    \/ Tick

SpecRpc == InitRpc /\ [][NextRpc]_vars

\* SpecReplica: a node that serves Get and the ApplyOperation calls of a
\* primary, whatever their op_type, over a cache with a TTL or none
NextReplica ==
    \/ NodeApplyOf(AnyRequests)
    \/ ClientGet(1)
    \/ Tick

SpecReplica == InitRpc /\ [][NextReplica]_vars

\* SpecFail: SpecRepl with a replica that may fail any call.  A call to the
\* replica returns: its deadline is 500 ms (lines 93-94).
NextFail ==
    \/ \E t \in Threads : Handlers(t)
    \/ Worker({"ok", "failed"})
    \/ WorkerSpuriousWake

FailFair ==
    /\ \A t \in Threads : SF_vars(Enqueue(t)) /\ WF_vars(NotifyReply(t))
    /\ WF_vars(Worker({"ok", "failed"}))

SpecFail == InitServer /\ [][NextFail]_vars /\ FailFair

\* SpecShutdown: the primary of SpecServer1 where every thread that can run
\* does run: the handler, the worker (a call to the replica returns within
\* its deadline, lines 93-94) and the thread that destroys the service.  A
\* wait on the condition variable need not wake without a notification:
\* WorkerSpuriousWake carries no fairness.
ShutdownFair ==
    /\ SF_vars(Enqueue(1)) /\ WF_vars(NotifyReply(1))
    /\ WF_vars(Worker({"ok", "failed"}))
    /\ WF_vars(Destructor)

SpecShutdown == InitServer /\ [][NextServer1]_vars /\ ShutdownFair

\* SpecPair: a primary and its replica, both constructed with the same
\* capacity and no TTL; one client thread calls Put, Get and Delete, at most
\* MaxSync mutations are accepted, the replica serves every call of the
\* worker, the service is not destroyed.
InitPair ==
    /\ \E capacity \in 1 .. MaxCap :
          /\ lru = setWalStream(Construct(capacity, 0, 0), STREAM)
          /\ replica = setWalStream(Construct(capacity, 0, 0), STREAM)
    /\ wal_good = TRUE
    /\ wal_file = <<>>
    /\ disk_free = MaxRun
    /\ now = 0
    /\ last = NoOp("new")
    /\ touchSeq = <<>>
    /\ mtx = NoThread
    /\ pc = [t \in Threads |-> "idle"]
    /\ req = [t \in Threads |-> Idle]
    /\ applied = <<>>
    /\ snap = NoSnap
    /\ replication_queue_ = <<>>
    /\ queue_mutex_ = NoThread
    /\ stop_replication_ = FALSE
    /\ wpc = "loop"
    /\ task = NoTask
    /\ dpc = "serving"
    /\ pushed = <<>>
    /\ delivered = <<>>

NextPair ==
    \/ ClientPutUpTo(1, MaxSync)
    \/ ClientDeleteUpTo(1, MaxSync)
    \/ Enqueue(1)
    \/ NotifyReply(1)
    \/ ClientGet(1)
    \/ Worker({"ok"})
    \/ WorkerSpuriousWake

SpecPair == InitPair /\ [][NextPair]_vars

\* =============================================================== claims
SuccessfulTouch(o) ==
    \/ o.op \in {"put", "rput"} /\ o.ok
    \/ o.op = "get" /\ o.ret # <<>>

NoDuplicates(seq) == \A i, j \in 1 .. Len(seq) : seq[i] = seq[j] => i = j

SeqRange(seq) == {seq[i] : i \in 1 .. Len(seq)}

IsPrefix(a, b) == Len(a) <= Len(b) /\ \A i \in 1 .. Len(a) : a[i] = b[i]

TTLOn == lru.ttl_seconds > 0

\* ticks after which an entry is expired: (T + 1) seconds
ExpiryTicks == (lru.ttl_seconds + 1) * TicksPerSec

\* C1: after every prefix of a sequence of put, get, remove and
\* recovery-mode put/remove, the index holds at most `capacity` entries.
C1_BoundedSize == Size(lru) <= lru.capacity

\* a put on a full cache evicted an entry and the cache is still full
C1_Witness ==
    /\ last.op \in {"put", "rput"}
    /\ last.evicted # {}
    /\ Size(lru) = lru.capacity

\* C2: the keys of the index are exactly the keys of the nodes linked
\* between the sentinels, each of them once; every index entry points to
\* a linked node that carries its key.
C2_IndexListBijection ==
    /\ SeqRange(ListKeys(lru)) = IndexKeys(lru)
    /\ NoDuplicates(ListKeys(lru))
    /\ Len(ListKeys(lru)) = Size(lru)
    /\ \A k \in IndexKeys(lru) :
          /\ lru.key[lru.cache[k]] = k
          /\ lru.cache[k] \in SeqRange(ListNodes(lru))

\* a get reaped an expired entry while another entry stays resident
C2_Witness ==
    /\ last.op = "get"
    /\ last.ret = <<>>
    /\ last.age >= 0
    /\ Size(lru) >= 1

\* C3: when a put evicts, the evicted key is the resident key whose last
\* successful touch (put that returned true, get that returned a value) is
\* the oldest.
C3_EvictsLeastRecentlyTouched ==
    [][(last'.op \in {"put", "rput"} /\ last'.evicted # {})
          => last'.evicted = Oldest(touchSeq)]_vars

\* a put evicted one of at least two resident keys
C3_Witness ==
    /\ last.op = "put"
    /\ last.evicted # {}
    /\ lru.capacity >= 2

\* C4: after a put that returned true and after a get that returned a value
\* the key is at the most-recently-used end (right after the head sentinel);
\* with room for two entries or more, the next eviction does not take it.
C4_TouchedKeyAtMRU ==
    /\ [](SuccessfulTouch(last) => MRU(lru) = {last.key})
    /\ [][(SuccessfulTouch(last) /\ last'.evicted # {} /\ lru.capacity >= 2)
             => last'.evicted # {last.key}]_vars

\* a get returned a value for a key and the store holds another key
C4_Witness ==
    /\ last.op = "get"
    /\ last.ret # <<>>
    /\ Size(lru) >= 2
    /\ MRU(lru) = {last.key}

\* C5: with TTL = T > 0, a get of a resident key whose last successful
\* touch was at t is a hit strictly before t + T + 1 seconds and a miss
\* strictly after t + T + 1 seconds; the window slides with every hit.
C5_SlidingWindow ==
    (last.op = "get" /\ last.age >= 0 /\ TTLOn)
       => /\ last.age < ExpiryTicks => last.ret # <<>>
          /\ last.age > ExpiryTicks => last.ret = <<>>
          /\ last.ret # <<>> => Age(touchSeq, last.key, now) = 0

\* a get hit an entry in the last tick of its window
C5_Witness ==
    /\ last.op = "get"
    /\ TTLOn
    /\ last.ret # <<>>
    /\ last.age = ExpiryTicks - 1

\* C6 as stated: an entry is expired iff more than T seconds elapsed since
\* its last touch, a fraction of a second over T included.
C6_ExpiredIffOverT ==
    (last.op = "get" /\ last.age >= 0 /\ TTLOn)
       => (last.ret = <<>> <=> last.age > lru.ttl_seconds * TicksPerSec)

\* C6 amended: an entry is expired iff the whole seconds elapsed since its
\* last touch (truncated) exceed T, that is iff T + 1 seconds or more
\* elapsed; at T seconds and at T seconds and a fraction the get is a hit.
C6_ExpiredIffWholeSecondsOverT ==
    (last.op = "get" /\ last.age >= 0 /\ TTLOn)
       => (last.ret = <<>> <=> last.age \div TicksPerSec > lru.ttl_seconds)

\* a get hit an entry that is T seconds and a fraction old
C6_Witness ==
    /\ last.op = "get"
    /\ TTLOn
    /\ last.ret # <<>>
    /\ last.age > lru.ttl_seconds * TicksPerSec

\* C7: when the log is attached and the append of the PUT record fails, put
\* returns false and leaves bindings and recency order as they were.
C7_FailedPutLeavesStore ==
    [][(last'.op = "put" /\ lru.wal_stream_ # NULL /\ wal_file' = wal_file)
          => (~last'.ok /\ StoreView(lru') = StoreView(lru))]_vars

\* C8: when the log is attached and the append of the DEL record fails,
\* remove returns false and leaves bindings and recency order as they were.
C8_FailedRemoveLeavesStore ==
    [][(/\ last'.op = "remove"
        /\ lru.wal_stream_ # NULL
        /\ last'.key \in IndexKeys(lru)
        /\ wal_file' = wal_file)
          => (~last'.ok /\ StoreView(lru') = StoreView(lru))]_vars

\* a remove of a resident key failed and the key is still resident
C8_Witness ==
    /\ last.op = "remove"
    /\ ~last.ok
    /\ last.key \in IndexKeys(lru)
    /\ Size(lru) >= 2

C10_LogOrderIsApplyOrder ==
    /\ IsPrefix([i \in 1 .. Len(applied) |-> applied[i].entry], wal_file)
    /\ (\A t \in Threads : pc[t] # "logged") => Len(applied) = Len(wal_file)

\* two threads have each logged and applied a mutation
C10_Witness ==
    /\ Len(applied) >= 2
    /\ applied[1].by # applied[2].by
    /\ Len(wal_file) = Len(applied)

\* C11 as stated: with the log attached, TTL disabled and no append failure,
\* replaying the log of a run of put, get and delete into a fresh cache of the
\* same capacity gives the bindings and the recency order of the run.
C11_ReplayEqualsRun ==
    wal_good => StoreView(Restarted) = StoreView(lru)

C13_RecoveryModeIsSilent ==
    /\ [][NodeApply => /\ wal_file' = wal_file
                       /\ wal_good' = wal_good
                       /\ disk_free' = disk_free
                       /\ replication_queue_' = replication_queue_
                       /\ pushed' = pushed]_vars
    /\ [](loadFromWAL(wal_file, lru, w0, now).w = w0)

\* the node applied a replicated operation while its log, attached and
\* writable, held a record and its queue held a task
C13_Witness ==
    /\ last.op = "apply"
    /\ last.ok
    /\ lru.wal_stream_ # NULL
    /\ wal_good
    /\ disk_free > 0
    /\ wal_file # <<>>
    /\ replication_queue_ # <<>>
    /\ last.key \in IndexKeys(lru)

NoHandlerRunning == \A t \in Threads : pc[t] = "idle"

\* C15: the tasks are pushed onto the replication queue in the order in
\* which their mutations were applied to the store of the primary.
C15_EnqueueOrderIsApplyOrder ==
    \A i, j \in 1 .. Len(pushed) : i < j => pushed[i].seq < pushed[j].seq

IsLogged(e) == e.logged

LoggedEntries(seq) ==
    [i \in 1 .. Len(SelectSeq(seq, IsLogged)) |-> SelectSeq(seq, IsLogged)[i].entry]

C17_ClientsNeverWaitForReplica ==
    /\ [](wpc = "send" => queue_mutex_ # WORKER)
    /\ \A t \in Threads : (pc[t] \in {"applied", "pushed"}) ~> (pc[t] = "idle")

\* both requests were accepted, pushed and answered while the worker is
\* still in its call to the replica for the first of them
C17_Witness ==
    /\ wpc = "send"
    /\ delivered = <<>>
    /\ Len(pushed) = 2
    /\ replication_queue_ # <<>>
    /\ NoHandlerRunning

\* C18: once the worker has left ReplicationWorkerLoop the replication
\* queue is empty.
C18_WorkerExitsDrained ==
    wpc = "exited" => replication_queue_ = <<>>

\* what a Get on the replica returns for the key of task tk once tk is applied
ReplicaShows(c, tk) ==
    get(c, tk.key, now).ret = (IF tk.op_type = "PUT" THEN <<tk.value>> ELSE <<>>)

\* C19: on a running primary whose replica accepts every call (TTL
\* disabled), the n-th accepted Put or Delete is eventually the n-th task the
\* replica applies: the replica applies the tasks pushed, in the order of
\* the queue, and right after it applied PUT(K,V) its Get(K) returns V, right
\* after DEL(K) its Get(K) is a miss.
C19_AcceptedMutationsReachReplica ==
    /\ \A n \in 1 .. MaxOps : (Len(applied) >= n) ~> (Len(delivered) >= n)
    /\ [](IsPrefix(delivered, [i \in 1 .. Len(pushed) |-> pushed[i].task]))
    /\ [][delivered' # delivered => ReplicaShows(replica', task)]_vars

\* the replica applied a PUT and then the DEL of the same key
C19_Witness ==
    /\ Len(delivered) = 2
    /\ delivered[1].op_type = "PUT"
    /\ delivered[2].op_type = "DEL"
    /\ delivered[1].key = delivered[2].key
    /\ IndexKeys(replica) = {}
    /\ wpc = "blocked"

\* both applications reported success and left the same bindings and order
SameStore(once, twice) ==
    /\ once.ret
    /\ twice.ret
    /\ StoreView(twice.c) = StoreView(once.c)

PutAgainSame(once, key, value, t) ==
    SameStore(once, applyReplicatedPut(once.c, once.w, key, value, t))

DelAgainSame(once, key) ==
    SameStore(once, applyReplicatedRemove(once.c, once.w, key))

\* a DEL of a key that is not in the store changes nothing and succeeds
AbsentDelNoOp(c, r, key) ==
    key \notin IndexKeys(c) => (r.ret /\ r.c = c)

\* C20: in every state of the store (TTL on or off, entries live or
\* expired, log attached or not) a replicated PUT(key, value) applied twice
\* in a row leaves the bindings and the recency order of applying it once,
\* and so does a replicated DEL(key); a DEL of an absent key is a no-op
\* that reports success.
C20_ReplicatedOpsIdempotent ==
    /\ \A key \in Keys, value \in Values :
          PutAgainSame(applyReplicatedPut(lru, w0, key, value, now), key, value, now)
    /\ \A key \in Keys :
          /\ DelAgainSame(applyReplicatedRemove(lru, w0, key), key)
          /\ AbsentDelNoOp(lru, applyReplicatedRemove(lru, w0, key), key)

\* a put in recovery mode evicted from a full cache with TTL on: applying it
\* again must not evict again
C20_Witness ==
    /\ last.op = "rput"
    /\ last.evicted # {}
    /\ lru.capacity >= 2
    /\ Size(lru) = lru.capacity
    /\ TTLOn
    /\ PutAgainSame([c |-> lru, w |-> w0, ret |-> last.ok], last.key,
                    lru.value[lru.cache[last.key]], now)

\* the call rq run alone, start to end, on the cache and the log of s
CallResult(s, rq, t, ioOk) ==
    IF rq.op = "put"
    THEN [c |-> put(s.c, s.w, rq.key, rq.value, t, ioOk).c,
          w |-> put(s.c, s.w, rq.key, rq.value, t, ioOk).w,
          ok |-> put(s.c, s.w, rq.key, rq.value, t, ioOk).ret,
          ret |-> <<>>]
    ELSE IF rq.op = "remove"
    THEN [c |-> remove(s.c, s.w, rq.key, ioOk).c,
          w |-> remove(s.c, s.w, rq.key, ioOk).w,
          ok |-> remove(s.c, s.w, rq.key, ioOk).ret,
          ret |-> <<>>]
    ELSE [c |-> get(s.c, rq.key, t).c, w |-> s.w, ok |-> TRUE, ret |-> get(s.c, rq.key, t).ret]

\* the state and the result of a returning call are those of r
ReturnsAs(r) ==
    /\ lru' = r.c
    /\ wal_good' = r.w.good
    /\ wal_file' = r.w.file
    /\ disk_free' = r.w.free
    /\ last'.ok = r.ok
    /\ last'.ret = r.ret

\* C14: every call of a concurrent execution returns the result, and leaves
\* the store and the log, that the whole call gives when it runs alone on
\* the store and the log it found when it took the mutex: the execution is
\* the sequential one in the order in which the calls took the mutex.
C14_CallsSerialisable ==
    [][\A t \in Threads :
          (pc[t] # "idle" /\ pc'[t] = "idle")
             => /\ snap.held
                /\ \E ioOk \in BOOLEAN : ReturnsAs(CallResult(snap, req[t], now, ioOk))]_vars

\* a get returned a value after two logged mutations and another thread
\* has entered its call since
C14_Witness ==
    /\ Len(applied) >= 2
    /\ applied[1].by # applied[2].by
    /\ last.op = "get"
    /\ last.ret # <<>>
    /\ \E t \in Threads : pc[t] = "locked"

\* the number of tasks the worker has taken from the queue
Dequeued == Len(pushed) - Len(replication_queue_)

\* C21: the replica is called for the tasks in the order in which they were
\* pushed: the queue holds the tasks pushed and not yet taken, oldest first;
\* the worker takes them one at a time, never while it is in a call, and the
\* task it calls the replica for is the oldest one not yet taken.
C21_ReplicaCalledInQueueOrder ==
    /\ [](replication_queue_ =
            [i \in 1 .. Len(replication_queue_) |-> pushed[Dequeued + i].task])
    /\ [](wpc = "send" => (Dequeued >= 1 /\ task = pushed[Dequeued].task))
    /\ [][Dequeued' # Dequeued
             => (Dequeued' = Dequeued + 1 /\ wpc # "send" /\ wpc' = "send")]_vars

\* the replica applied the first task and the worker is calling it for the
\* second, a different one
C21_Witness ==
    /\ wpc = "send"
    /\ Dequeued = 2
    /\ delivered = <<pushed[1].task>>
    /\ task = pushed[2].task
    /\ pushed[1].task # pushed[2].task

\* the worker's call to the replica ended and the replica applied nothing
FailedCall == wpc = "send" /\ wpc' # "send" /\ delivered' = delivered

\* C22: when the call to the replica fails, the task is gone (the worker
\* holds no task, the queue is as it was: no retry, no re-enqueue), the worker
\* is back at the top of its loop, the store and the log of the primary, the
\* mutations it accepted and its handlers are as they were; and every task
\* pushed is still taken by the worker, whatever calls failed before it.
C22_FailedCallDropsTask ==
    /\ [][FailedCall => /\ task' = NoTask
                         /\ wpc' = "loop"
                         /\ replication_queue_' = replication_queue_
                         /\ pushed' = pushed
                         /\ replica' = replica
                         /\ lru' = lru
                         /\ wal_file' = wal_file
                         /\ wal_good' = wal_good
                         /\ disk_free' = disk_free
                         /\ applied' = applied
                         /\ pc' = pc]_vars
    /\ \A n \in 1 .. MaxOps : (Len(pushed) >= n) ~> (Dequeued >= n)

\* the call for the first task failed and the worker is calling the replica
\* for the second
C22_Witness ==
    /\ wpc = "send"
    /\ Dequeued = 2
    /\ delivered = <<>>
    /\ task = pushed[2].task
    /\ lru.cache[pushed[1].task.key] # NULL

\* C23: the Get handler replies found = true with the value of the store,
\* the empty string included, iff the key was in the store and not expired
\* when the handler began (whole seconds since its last successful touch do
\* not exceed the TTL); else it replies found = false with an empty value and
\* the key is not in the store afterwards.  The status is OK in both cases.
C23_GetRepliesFoundIffLive ==
    last.op = "Get" =>
       /\ last.response.status = "OK"
       /\ last.response.found
             <=> (last.age >= 0 /\ (TTLOn => last.age \div TicksPerSec <= lru.ttl_seconds))
       /\ last.response.found => Bindings(lru)[last.key] = <<last.response.value>>
       /\ ~last.response.found
             => (last.response.value = EmptyString /\ last.key \notin IndexKeys(lru))

\* Get found a key whose stored value is the empty string, some time after
\* it was put on a cache with a TTL
C23_Witness ==
    /\ last.op = "Get"
    /\ last.response.found
    /\ last.response.value = EmptyString
    /\ TTLOn
    /\ last.age > 0

\* the handler step appended nothing to the log although it called
\* writeLogEntry: Put always does, Delete when the key is in the index
AppendFailed ==
    /\ wal_file' = wal_file
    /\ last'.op = "Delete" => last'.key \in IndexKeys(lru)

\* the handler step pushed the task tk at the back of the queue
PushedTask(op_type, key) ==
    /\ Len(replication_queue_') = Len(replication_queue_) + 1
    /\ IsPrefix(replication_queue_, replication_queue_')
    /\ replication_queue_'[Len(replication_queue_')].op_type = op_type
    /\ replication_queue_'[Len(replication_queue_')].key = key

\* C24: on a primary with the log attached, Put and Delete reply
\* success = false (status INTERNAL) exactly when the append of their record
\* failed, and then the queue is as it was; in every other case, Delete of a
\* key that is not in the store included, they reply success = true (status
\* OK) and have pushed their task.
C24_FailsOnlyOnLogFailure ==
    [][(last'.op \in {"Put", "Delete"})
          => /\ ~last'.response.success <=> AppendFailed
             /\ ~last'.response.success
                   => /\ last'.response.status = "INTERNAL"
                      /\ replication_queue_' = replication_queue_
                      /\ pushed' = pushed
             /\ last'.response.success
                   => /\ last'.response.status = "OK"
                      /\ PushedTask(IF last'.op = "Put" THEN "PUT" ELSE "DEL", last'.key)]_vars

\* a Delete of a key that was not in the store was accepted and pushed
\* without a record; the Put after it failed on the log and pushed nothing
C24_Witness ==
    /\ last.op = "Put"
    /\ ~last.response.success
    /\ ~wal_good
    /\ wal_file = <<>>
    /\ Len(pushed) = 1
    /\ replication_queue_ = <<DelTask(pushed[1].task.key)>>

\* what the cache answers to the local apply a PUT or DEL request asks for
LocalApply(c, w, request, t) ==
    IF request.op_type = "PUT"
    THEN applyReplicatedPut(c, w, request.key, request.value, t)
    ELSE applyReplicatedRemove(c, w, request.key)

\* the reply r to the request is the protocol error, the store c untouched
IsProtocolError(r, c, w) ==
    /\ r.status = "INVALID_ARGUMENT"
    /\ ~r.success
    /\ r.c = c
    /\ r.w = w

\* the reply r reports what the local apply a answered
ReportsLocal(r, a) ==
    /\ r.status = "OK"
    /\ r.success = a.ret
    /\ r.c = a.c

\* C25: in every state of the node, ApplyOperation answers a request whose
\* op_type is neither PUT nor DEL with status INVALID_ARGUMENT and
\* success = false and leaves the store and the log untouched; it answers a
\* PUT or DEL with status OK and the success the local apply reported.  A
\* served call that reported failure left the store as it was.
C25_UnknownOpIsProtocolError ==
    /\ [](\A request \in AnyRequests :
             IF request.op_type \in {"PUT", "DEL"}
             THEN ReportsLocal(ApplyOperation(lru, w0, replication_queue_, request, now),
                               LocalApply(lru, w0, request, now))
             ELSE IsProtocolError(ApplyOperation(lru, w0, replication_queue_, request, now),
                                  lru, w0))
    /\ [][(NodeApplyOf(AnyRequests) /\ ~last'.ok)
             => (lru' = lru /\ wal_file' = wal_file)]_vars

\* the node answered a request of unknown op_type while its store was full
C25_Witness ==
    /\ last.op = "apply"
    /\ ~last.ok
    /\ Size(lru) = lru.capacity
    /\ last.key \in IndexKeys(lru)

\* the fields of a line of the log format: the pieces between the commas,
\* empty ones included
RECURSIVE Fields(_, _)
Fields(s, field) ==
    IF s = <<>> THEN <<field>>
    ELSE IF Head(s) = "," THEN <<field>> \o Fields(Tail(s), <<>>)
    ELSE Fields(Tail(s), Append(field, Head(s)))

\* a record of the log format: PUT,<key>,<value> or DEL,<key>
IsRecord(line) ==
    \/ Fields(line, <<>>)[1] = <<"P", "U", "T">> /\ Len(Fields(line, <<>>)) = 3
    \/ Fields(line, <<>>)[1] = <<"D", "E", "L">> /\ Len(Fields(line, <<>>)) = 2

\* the mutation of each record applied in recovery mode, in order
RECURSIVE ApplyRecords(_, _, _)
ApplyRecords(records, c, t) ==
    IF records = <<>> THEN c
    ELSE ApplyRecords(Tail(records),
                      LocalApply(c, NoWal,
                                 IF Fields(Head(records), <<>>)[1] = <<"P", "U", "T">>
                                 THEN PutTask(Fields(Head(records), <<>>)[2],
                                              Fields(Head(records), <<>>)[3])
                                 ELSE DelTask(Fields(Head(records), <<>>)[2]),
                                 t).c,
                      t)

Recovered == last.op \in {"loadFromWAL", "loadFromWAL-ENOENT"}

\* C26 as stated: recovery reports success and leaves the store that the
\* records of the file give when applied in file order to the empty cache,
\* every line that is not a record (unknown tag, wrong number of fields,
\* empty) skipped; when the file does not exist the cache is empty.
C26_MalformedLinesSkipped ==
    Recovered =>
       /\ last.ok
       /\ StoreView(lru)
             = StoreView(ApplyRecords(SelectSeq(wal_file, IsRecord),
                                      Construct(lru.capacity, lru.ttl_seconds, now), now))
       /\ last.op = "loadFromWAL-ENOENT" => IndexKeys(lru) = {}

\* the string holds no comma and no newline
IsClean(str) == \A i \in 1 .. Len(str) : str[i] \notin {",", "\n"}

\* C27 as stated: a value with a comma or a newline never reaches the
\* store nor the log, and the log parses back to what was accepted: it reads
\* as one record per entry, and the restart over it has the bindings and the
\* order of the run.
C27_SeparatorsRefused ==
    /\ \A k \in IndexKeys(lru) : IsClean(lru.value[lru.cache[k]])
    /\ \A i \in 1 .. Len(wal_file) : wal_file[i] \in WalLines /\ IsRecord(wal_file[i])
    /\ ReadLines(wal_file) = wal_file
    /\ wal_good
          => StoreView(loadFromWAL(ReadLines(wal_file),
                                   Construct(lru.capacity, lru.ttl_seconds, now),
                                   NoWal, now).c) = StoreView(lru)

\* the step is a put, or a remove of a key of the index, with the log attached
LoggingCall ==
    /\ lru.wal_stream_ # NULL
    /\ \/ last'.op = "put"
       \/ last'.op = "remove" /\ last'.key \in IndexKeys(lru)

\* C28 as stated: a put or remove that failed on the log leaves every
\* binding as it was, so get returns the values stored before; and a put or
\* remove made when the device of the log accepts a line again (the failure
\* was transient) succeeds, also after an earlier one failed.
C28_UsableAfterLogFailure ==
    /\ [][(LoggingCall /\ ~last'.ok) => Bindings(lru') = Bindings(lru)]_vars
    /\ [][(LoggingCall /\ ~wal_good /\ disk_free > 0) => last'.ok]_vars

\* the step is a put (client or recovery) that returned true for a key that
\* was not in the index, on a full store
PutOfNewKeyWhenFull ==
    /\ last'.op \in {"put", "rput"}
    /\ last'.ok
    /\ last'.key \notin IndexKeys(lru)
    /\ Size(lru) = lru.capacity

\* the entry of key k is the same in both stores: value and time of last touch
SameEntry(c, d, k) ==
    /\ d.cache[k] # NULL
    /\ d.value[d.cache[k]] = c.value[c.cache[k]]
    /\ d.timestamp[d.cache[k]] = c.timestamp[c.cache[k]]

\* C29: a put of a key that is not in the store, on a full store, removes
\* the entry at the least-recently-used end and no other, expired or not:
\* the new key is at the front, the other entries follow in the order they
\* had, with their values and their times of last touch, so that an entry
\* that was expired is still resident and still expired.  No step takes an
\* entry out of the store but a call on its own key or the eviction of the
\* entry at the least-recently-used end.
C29_EvictsExactlyTheLRUEntry ==
    /\ [][PutOfNewKeyWhenFull
             => /\ last'.evicted = LRU(lru)
                /\ ListKeys(lru') = <<last'.key>>
                                       \o SubSeq(ListKeys(lru), 1, Len(ListKeys(lru)) - 1)
                /\ IndexKeys(lru') = (IndexKeys(lru) \ LRU(lru)) \cup {last'.key}
                /\ \A k \in IndexKeys(lru) \ LRU(lru) : SameEntry(lru, lru', k)]_vars
    /\ [][\A k \in IndexKeys(lru) \ IndexKeys(lru') :
             \/ k = last'.key
             \/ last'.evicted = {k} /\ LRU(lru) = {k}]_vars

\* a put evicted the LRU entry and the entry that stayed is expired
C29_Witness ==
    /\ last.op = "put"
    /\ last.evicted # {}
    /\ Size(lru) = 2
    /\ \E k \in IndexKeys(lru) \ {last.key} : isExpired(lru, lru.cache[k], now)

\* the step is a Get of a key that is in the index and whose last successful
\* touch is more than ttl_seconds whole seconds ago
GetOfExpiredKey ==
    /\ last'.op = "Get"
    /\ last'.key \in IndexKeys(lru)
    /\ TTLOn
    /\ Age(touchSeq, last'.key, now) \div TicksPerSec > lru.ttl_seconds

\* the sequence without its elements equal to x
SeqMinus(seq, x) == SelectSeq(seq, LAMBDA y : y # x)

\* C30: a get of a key that is in the store and expired is a miss; it takes
\* the key out of the index and out of the recency order, leaves the other
\* entries, their values, their times of last touch and their order as they
\* were, and leaves the log, its stream and its device as they were.  A key
\* that is not in the index is a miss for get, and only a put that returns
\* true brings a key into the index.
C30_ExpiredGetReaps ==
    /\ [][GetOfExpiredKey
             => /\ ~last'.response.found
                /\ IndexKeys(lru') = IndexKeys(lru) \ {last'.key}
                /\ Size(lru') = Size(lru) - 1
                /\ ListKeys(lru') = SeqMinus(ListKeys(lru), last'.key)
                /\ \A k \in IndexKeys(lru) \ {last'.key} : SameEntry(lru, lru', k)
                /\ wal_file' = wal_file
                /\ wal_good' = wal_good
                /\ disk_free' = disk_free]_vars
    /\ [](\A k \in Keys \ IndexKeys(lru) : get(lru, k, now).ret = <<>>)
    /\ [][\A k \in IndexKeys(lru') \ IndexKeys(lru) :
             last'.op = "Put" /\ last'.key = k /\ last'.response.success]_vars

\* a Get reaped an expired key from a store of two entries whose log is
\* attached and in good state
C30_Witness ==
    /\ last.op = "Get"
    /\ ~last.response.found
    /\ last.age >= 0
    /\ Size(lru) = 1
    /\ wal_good
    /\ Len(wal_file) = 2

\* C31: a remove that returns true for a key of the store takes that key
\* out of the index and out of the recency order and nothing else: the other
\* entries keep their values, their times of last touch and their order; a
\* remove of a key that is not in the store returns true and leaves the
\* cache as it was.
C31_RemoveTakesOnlyItsKey ==
    [][(last'.op \in {"remove", "rremove"})
          => IF last'.key \in IndexKeys(lru)
             THEN last'.ok
                     => /\ IndexKeys(lru') = IndexKeys(lru) \ {last'.key}
                        /\ ListKeys(lru') = SeqMinus(ListKeys(lru), last'.key)
                        /\ \A k \in IndexKeys(lru) \ {last'.key} : SameEntry(lru, lru', k)
             ELSE last'.ok /\ lru' = lru]_vars

\* a remove logged its record and took its key out of a store that still
\* holds another key
C31_Witness ==
    /\ last.op = "remove"
    /\ last.ok
    /\ wal_file # <<>>
    /\ wal_file[Len(wal_file)] = DelEntry(last.key)
    /\ last.key \notin IndexKeys(lru)
    /\ Size(lru) >= 1

\* the cache after a restart that finds only the last line of the log
LastLineReplayed ==
    replayLine(Construct(lru.capacity, lru.ttl_seconds, now), NoWal,
               wal_file[Len(wal_file)], now).c

\* C32 as stated: the line that a Put which returned success wrote to the
\* log, replayed by recovery into an empty cache, re-inserts the binding of
\* the Put, whatever its value, the empty value included.
C32_PutRecordsReplay ==
    (last.op = "Put" /\ last.response.success)
       => /\ wal_file # <<>>
          /\ Bindings(lru)[last.key] # <<>>
          /\ Bindings(LastLineReplayed)[last.key] = Bindings(lru)[last.key]

\* C33 as stated: once the destructor has set stop_replication_ and called
\* notify_all, the worker leaves its loop and the join returns.
C33_ShutdownTerminates ==
    (dpc = "joining") ~> (wpc = "exited" /\ dpc = "joined")

\* every mutation the primary accepted has been applied by the replica
Drained ==
    /\ replication_queue_ = <<>>
    /\ task = NoTask
    /\ Len(delivered) = Len(applied)

\* C34 as stated: once the replication queue has drained, the replica maps
\* the same keys to the same values as the primary.
C34_ReplicaEqualsPrimaryWhenDrained ==
    Drained => Bindings(replica) = Bindings(lru)

TypeOK ==
    /\ lru.capacity \in 1 .. MaxCap
    /\ now \in 0 .. MaxTime
    /\ Len(wal_file) <= IF MaxRun > MaxLog THEN MaxRun ELSE MaxLog

====
